---- MODULE Spec2Model ----
(***************************************************************************)
(* Offline attendance synchronisation of woti-v2-server.                   *)
(*                                                                         *)
(* The model covers the attendance service (clockIn, clockOut,             *)
(* syncOfflineRecords), the sync resolver (validateSyncMetadata,           *)
(* hasConflict, resolveConflict, createSyncResponse), the attendance       *)
(* repository (create, update) and the attendance table of the schema.     *)
(* Every database round trip (each `await`) is one atomic step, so that    *)
(* two requests interleave exactly where Node.js lets them.                *)
(*                                                                         *)
(* A wire record is the JSON object a client sends.  The service reads     *)
(* its camelCase keys (deviceId, clientTimestamp, ...) and the resolver    *)
(* and the repository's update read its snake_case keys (device_id,        *)
(* client_timestamp, ...), so a wire record carries both families and      *)
(* each key may be absent.                                                 *)
(***************************************************************************)
EXTENDS Integers, Sequences, FiniteSets, TLC

VARIABLES
    store,      \* the attendance table: a sequence of rows, id = position
    pc,         \* per request slot: where the handler is suspended
    usr,        \* per request slot: req.user.id
    cur,        \* per request slot: the record / request body being handled
    existing,   \* per request slot: <<row>> read by the last lookup, or <<>>
    batch,      \* per request slot: the records of the batch consumed so far
    synced,     \* per request slot: the synced bucket
    conflicts,  \* per request slot: the conflicts bucket
    errors,     \* per request slot: the errors bucket
    response,   \* per request slot: <<response>> once returned, or <<>>
    rows0,      \* per request slot: number of rows when the request began
    prior,      \* per request slot: <<[batch, table]>> while the request is
                \* a retry of the slot's previous batch, else <<>>
    client,     \* per request slot: the pooled connection of a bulk insert:
                \* its uncommitted rows and how often it was released
    env         \* the environment: pending records of the devices, fault
                \* injection, request slots in use (fixed by Init)

vars == <<store, pc, usr, cur, existing, batch, synced, conflicts, errors,
          response, rows0, env, prior, client>>

----------------------------------------------------------------------------
(* Bounds of the model *)

MaxRows == 2        \* rows the attendance table may hold
MaxBatch == 2       \* records taken from one sync batch
MaxVersion == 2     \* sync_version is not raised beyond this

----------------------------------------------------------------------------
(* Values *)

Undef == "undefined"    \* an absent string-valued key / SQL NULL
Null == -1              \* an absent number- or time-valued key / SQL NULL
NotANumber == -2        \* a sync_version whose typeof is not 'number'

Slots == {"a", "b"}
Users == {"u1", "u2"}
Facilities == {"f1", "f2"}          \* ids of the facilities table
ActiveFacilities == {"f1"}          \* those with status = 'active'
ServerTimes == {300}                \* values new Date() may take
ValidStrategies == {"client_wins", "server_wins", "manual"}
ValidStatus == {"clocked_in", "clocked_out", "incomplete"}
ToleranceMs == 60000

\* JavaScript truthiness of a number-valued, a string-valued and a
\* time-valued (ISO string or Date) key
Truthy(x) == x # Null /\ x # 0
Present(s) == s # Undef /\ s # ""
HasTime(t) == t # Null

\* a || b
OrNum(a, b) == IF Truthy(a) THEN a ELSE b
OrStr(a, b) == IF Present(a) THEN a ELSE b

Abs(x) == IF x < 0 THEN 0 - x ELSE x

\* new Date(t).getTime(): times are kept in seconds, getTime is in ms
GetTime(t) == t * 1000

----------------------------------------------------------------------------
(* Wire records *)

Blank ==
    [ attendanceId |-> Null,
      facilityId |-> Undef, clockIn |-> Null, clockOut |-> Null,
      deviceId |-> Undef, clientTimestamp |-> Null, syncVersion |-> Null,
      conflictResolutionStrategy |-> Undef,
      clockInLatitude |-> Null, clockInLongitude |-> Null,
      device_id |-> Undef, client_timestamp |-> Null, sync_version |-> Null,
      clock_in |-> Null, clock_out |-> Null,
      conflict_resolution_strategy |-> Undef, status |-> Undef,
      records |-> Undef ]

\* the body of POST /sync: records is "array" when Array.isArray(records)
SyncBody(records) == [ Blank EXCEPT !.records = records ]

\* values of req.body.records that are not arrays: absent, or a string
NotArrays == {Undef, "text"}

\* the documented request format: camelCase keys only
Camel(fac, dev, ts, cin, cout, ver, strat) ==
    [ Blank EXCEPT !.facilityId = fac, !.deviceId = dev,
                   !.clientTimestamp = ts, !.clockIn = cin, !.clockOut = cout,
                   !.syncVersion = ver,
                   !.conflictResolutionStrategy = strat ]

\* the same record with its sync metadata and clock times repeated under
\* the snake_case keys
WithSnake(r) ==
    [ r EXCEPT !.device_id = r.deviceId,
               !.client_timestamp = r.clientTimestamp,
               !.sync_version = r.syncVersion,
               !.clock_in = r.clockIn, !.clock_out = r.clockOut,
               !.conflict_resolution_strategy = r.conflictResolutionStrategy ]

\* a record sent with snake_case keys only
SnakeOnly(r) ==
    [ WithSnake(r) EXCEPT !.deviceId = Undef, !.clientTimestamp = Null,
                          !.syncVersion = Null, !.clockIn = Null,
                          !.clockOut = Null,
                          !.conflictResolutionStrategy = Undef ]

----------------------------------------------------------------------------
(* syncResolver.js *)

\* validateSyncMetadata without its device_id test
validateSyncMetadataNoDevice(record) ==
    LET e2 == IF ~HasTime(record.client_timestamp)
              THEN <<"Missing client_timestamp">> ELSE <<>>
        e3 == IF Truthy(record.sync_version)
                 /\ record.sync_version = NotANumber
              THEN <<"Invalid sync_version type">> ELSE <<>>
        e4 == IF Present(record.conflict_resolution_strategy)
                 /\ record.conflict_resolution_strategy \notin ValidStrategies
              THEN <<"Invalid conflict_resolution_strategy">> ELSE <<>>
        errs == e2 \o e3 \o e4
    IN  [ isValid |-> Len(errs) = 0, errors |-> errs ]

validateSyncMetadata(record) ==
    LET e1 == IF ~Present(record.device_id)
              THEN <<"Missing device_id">> ELSE <<>>
        e2 == IF ~HasTime(record.client_timestamp)
              THEN <<"Missing client_timestamp">> ELSE <<>>
        e3 == IF Truthy(record.sync_version)
                 /\ record.sync_version = NotANumber
              THEN <<"Invalid sync_version type">> ELSE <<>>
        e4 == IF Present(record.conflict_resolution_strategy)
                 /\ record.conflict_resolution_strategy \notin ValidStrategies
              THEN <<"Invalid conflict_resolution_strategy">> ELSE <<>>
        errs == e1 \o e2 \o e3 \o e4
    IN  [ isValid |-> Len(errs) = 0, errors |-> errs ]

\* the comparison with >= in place of >
DiffersByAtLeastTolerance(a, b) ==
    /\ a # Null
    /\ b # Null
    /\ Abs(GetTime(a) - GetTime(b)) >= ToleranceMs

\* Math.abs(new Date(a).getTime() - new Date(b).getTime()) > 60000, where
\* new Date(undefined).getTime() is NaN and every comparison with NaN is false
DiffersByMoreThanTolerance(a, b) ==
    /\ a # Null
    /\ b # Null
    /\ Abs(GetTime(a) - GetTime(b)) > ToleranceMs

\* a detector that reports every pair of records as conflicting
hasConflictAlways(clientRecord, serverRecord) == TRUE

hasConflict(clientRecord, serverRecord) ==
    IF clientRecord.sync_version # serverRecord.sync_version THEN TRUE
    ELSE IF DiffersByMoreThanTolerance(clientRecord.clock_in,
                                       serverRecord.clock_in) THEN TRUE
    ELSE IF /\ HasTime(clientRecord.clock_out)
            /\ HasTime(serverRecord.clock_out)
            /\ DiffersByMoreThanTolerance(clientRecord.clock_out,
                                          serverRecord.clock_out) THEN TRUE
    ELSE FALSE

\* resolveConflict that lets the client win whatever the strategy
resolveConflictAlwaysClient(clientRecord, serverRecord, strategy) ==
    [ resolved |-> <<clientRecord>>, winner |-> "client",
      reason |-> "Client-wins strategy applied" ]

\* resolveConflict whose 'client_wins' case returns the server record
resolveConflictClientKeepsServer(clientRecord, serverRecord, strategy) ==
    CASE strategy = "client_wins" ->
            [ resolved |-> <<serverRecord>>, winner |-> "client",
              reason |-> "Client-wins strategy applied" ]
      [] strategy = "manual" ->
            [ resolved |-> <<>>, winner |-> "manual",
              reason |-> "Manual resolution required",
              clientRecord |-> clientRecord, serverRecord |-> serverRecord ]
      [] OTHER ->
            [ resolved |-> <<serverRecord>>, winner |-> "server",
              reason |-> "Server-wins strategy applied" ]

\* resolveConflict with the 'server_wins' case returning the client's result
resolveConflictServerAsClient(clientRecord, serverRecord, strategy) ==
    CASE strategy \in {"client_wins", "server_wins"} ->
            [ resolved |-> <<clientRecord>>, winner |-> "client",
              reason |-> "Client-wins strategy applied" ]
      [] strategy = "manual" ->
            [ resolved |-> <<>>, winner |-> "manual",
              reason |-> "Manual resolution required",
              clientRecord |-> clientRecord, serverRecord |-> serverRecord ]
      [] OTHER ->
            [ resolved |-> <<serverRecord>>, winner |-> "server",
              reason |-> "Unknown strategy, defaulted to server_wins" ]

\* resolveConflict without the 'manual' case, which then takes the default
resolveConflictManualAsDefault(clientRecord, serverRecord, strategy) ==
    CASE strategy = "client_wins" ->
            [ resolved |-> <<clientRecord>>, winner |-> "client",
              reason |-> "Client-wins strategy applied" ]
      [] strategy = "server_wins" ->
            [ resolved |-> <<serverRecord>>, winner |-> "server",
              reason |-> "Server-wins strategy applied" ]
      [] OTHER ->
            [ resolved |-> <<serverRecord>>, winner |-> "server",
              reason |-> "Unknown strategy, defaulted to server_wins" ]

\* resolveConflict whose default hands an unknown strategy to the client
resolveConflictUnknownAsClient(clientRecord, serverRecord, strategy) ==
    CASE strategy = "server_wins" ->
            [ resolved |-> <<serverRecord>>, winner |-> "server",
              reason |-> "Server-wins strategy applied" ]
      [] strategy = "manual" ->
            [ resolved |-> <<>>, winner |-> "manual",
              reason |-> "Manual resolution required",
              clientRecord |-> clientRecord, serverRecord |-> serverRecord ]
      [] OTHER ->
            [ resolved |-> <<clientRecord>>, winner |-> "client",
              reason |-> "Client-wins strategy applied" ]

resolveConflict(clientRecord, serverRecord, strategy) ==
    CASE strategy = "client_wins" ->
            [ resolved |-> <<clientRecord>>, winner |-> "client",
              reason |-> "Client-wins strategy applied" ]
      [] strategy = "server_wins" ->
            [ resolved |-> <<serverRecord>>, winner |-> "server",
              reason |-> "Server-wins strategy applied" ]
      [] strategy = "manual" ->
            [ resolved |-> <<>>, winner |-> "manual",
              reason |-> "Manual resolution required",
              clientRecord |-> clientRecord, serverRecord |-> serverRecord ]
      [] OTHER ->
            [ resolved |-> <<serverRecord>>, winner |-> "server",
              reason |-> "Unknown strategy, defaulted to server_wins" ]

\* createSyncResponse counting the errors where the conflicts belong
createSyncResponseMiscount(syncedRecords, conflictList, errorList) ==
    [ success |-> TRUE,
      synced |-> Len(syncedRecords),
      conflicts |-> Len(errorList),
      errors |-> Len(errorList),
      data |-> [ synced |-> syncedRecords, conflicts |-> conflictList,
                 errors |-> errorList ] ]

createSyncResponse(syncedRecords, conflictList, errorList) ==
    [ success |-> TRUE,
      synced |-> Len(syncedRecords),
      conflicts |-> Len(conflictList),
      errors |-> Len(errorList),
      data |-> [ synced |-> syncedRecords, conflicts |-> conflictList,
                 errors |-> errorList ] ]

----------------------------------------------------------------------------
(* The attendance table (001_initial_schema.sql) *)

\* NOT NULL, FOREIGN KEY, CHECK and column-type constraints of a row
AttendanceConstraints(row) ==
    /\ row.user_id \in Users
    /\ row.facility_id \in Facilities
    /\ row.clock_in # Null
    /\ row.status \in ValidStatus
    /\ row.conflict_resolution_strategy \in ValidStrategies
    /\ row.sync_version # NotANumber
    /\ (row.clock_out = Null \/ row.clock_out > row.clock_in)
    /\ \/ row.clock_in_latitude = Null /\ row.clock_in_longitude = Null
       \/ /\ row.clock_in_latitude # Null
          /\ row.clock_in_longitude # Null
          /\ Abs(row.clock_in_latitude) <= 90
          /\ Abs(row.clock_in_longitude) <= 180

\* SELECT * FROM attendance WHERE device_id = $1 AND client_timestamp = $2
\* (a NULL parameter matches no row)
SelectByDeviceAndTimestamp(table, deviceId, clientTimestamp) ==
    { table[i] : i \in { j \in 1..Len(table) :
                           /\ Present(deviceId)
                           /\ HasTime(clientTimestamp)
                           /\ table[j].device_id = deviceId
                           /\ table[j].client_timestamp = clientTimestamp } }

----------------------------------------------------------------------------
(* database.js *)

\* no connection taken from the pool
NoClient == [ released |-> FALSE, releases |-> 0, tx |-> <<>> ]

\* client.release() as getClient wraps it: the first call returns the
\* connection to the pool, later calls only log a warning
release(c) ==
    IF c.released THEN c
    ELSE [ c EXCEPT !.released = TRUE, !.releases = @ + 1 ]

\* the table after ROLLBACK with the rows of the transaction kept, as if
\* each INSERT had been committed on its own
RollbackKeeping(table, tx) == table \o tx

\* the table after COMMIT and after ROLLBACK of a transaction whose
\* uncommitted rows are tx
Commit(table, tx) == table \o tx
Rollback(table, tx) == table

----------------------------------------------------------------------------
(* attendance.repository.js *)

\* create() ignoring attendanceData.syncVersion
createAtVersionOne(id, attendanceData, now) ==
    [ id |-> id,
      user_id |-> attendanceData.userId,
      facility_id |-> attendanceData.facilityId,
      clock_in |-> IF HasTime(attendanceData.clockIn)
                   THEN attendanceData.clockIn ELSE now,
      clock_in_latitude |-> OrNum(attendanceData.clockInLatitude, Null),
      clock_in_longitude |-> OrNum(attendanceData.clockInLongitude, Null),
      clock_out |-> Null,
      status |-> "clocked_in",
      synced |-> TRUE,
      client_timestamp |-> attendanceData.clientTimestamp,
      device_id |-> OrStr(attendanceData.deviceId, Undef),
      sync_version |-> 1,
      conflict_resolution_strategy |->
          OrStr(attendanceData.conflictResolutionStrategy, "server_wins") ]

\* the row create() inserts; the INSERT names neither clock_out nor the
\* clock-out coordinates, and status is always 'clocked_in'
create(id, attendanceData, now) ==
    [ id |-> id,
      user_id |-> attendanceData.userId,
      facility_id |-> attendanceData.facilityId,
      clock_in |-> IF HasTime(attendanceData.clockIn)
                   THEN attendanceData.clockIn ELSE now,
      clock_in_latitude |-> OrNum(attendanceData.clockInLatitude, Null),
      clock_in_longitude |-> OrNum(attendanceData.clockInLongitude, Null),
      clock_out |-> Null,
      status |-> "clocked_in",
      synced |-> TRUE,
      client_timestamp |-> attendanceData.clientTimestamp,
      device_id |-> OrStr(attendanceData.deviceId, Undef),
      sync_version |-> OrNum(attendanceData.syncVersion, 1),
      conflict_resolution_strategy |->
          OrStr(attendanceData.conflictResolutionStrategy, "server_wins") ]

\* update() whose allowed fields also take the record's facilityId
updateWithFacility(row, updates) ==
    [ row EXCEPT
        !.clock_out = IF updates.clock_out # Null
                      THEN updates.clock_out ELSE @,
        !.status = IF updates.status # Undef THEN updates.status ELSE @,
        !.sync_version = IF updates.sync_version # Null
                         THEN updates.sync_version ELSE @,
        !.facility_id = IF updates.facilityId # Undef
                        THEN updates.facilityId ELSE @ ]

\* the row after update(): only the allowed keys that are not undefined
\* are written
update(row, updates) ==
    [ row EXCEPT
        !.clock_out = IF updates.clock_out # Null
                      THEN updates.clock_out ELSE @,
        !.status = IF updates.status # Undef THEN updates.status ELSE @,
        !.sync_version = IF updates.sync_version # Null
                         THEN updates.sync_version ELSE @ ]

\* the table after UPDATE attendance SET ... WHERE id = $n
UpdateById(table, id, updates) ==
    [ table EXCEPT ![id] = update(table[id], updates) ]

----------------------------------------------------------------------------
(* attendance.service.js: syncOfflineRecords *)

\* error.message of an INSERT or UPDATE that a constraint rejects
ConstraintViolated == "new row violates a constraint of attendance"

PushError(p, record, messages) ==
    errors' = [ errors EXCEPT ![p] =
                  Append(@, [ record |-> record, errors |-> messages ]) ]

PushSynced(p, id, action, resolution) ==
    synced' = [ synced EXCEPT ![p] =
                  Append(@, [ id |-> id, action |-> action,
                              resolution |-> resolution ]) ]

\* the controller without its Array.isArray test: the service is entered
\* whatever records is
SyncBadRequestUnchecked(p, userId, records) ==
    /\ p \in env.slots
    /\ userId \in env.users
    /\ pc[p] \in {"idle", "done", "replied"}
    /\ records \in NotArrays
    /\ pc' = [ pc EXCEPT ![p] = "loop" ]
    /\ usr' = [ usr EXCEPT ![p] = userId ]
    /\ cur' = [ cur EXCEPT ![p] = SyncBody(records) ]
    /\ existing' = [ existing EXCEPT ![p] = <<>> ]
    /\ batch' = [ batch EXCEPT ![p] = <<>> ]
    /\ synced' = [ synced EXCEPT ![p] = <<>> ]
    /\ conflicts' = [ conflicts EXCEPT ![p] = <<>> ]
    /\ errors' = [ errors EXCEPT ![p] = <<>> ]
    /\ response' = [ response EXCEPT ![p] = <<>> ]
    /\ rows0' = [ rows0 EXCEPT ![p] = Len(store) ]
    /\ prior' = [ prior EXCEPT ![p] = <<>> ]
    /\ UNCHANGED <<store, env, client>>

\* POST /sync whose records is not an array: the controller answers 400
\* and returns before calling the service
SyncBadRequest(p, userId, records) ==
    /\ p \in env.slots
    /\ userId \in env.users
    /\ pc[p] \in {"idle", "done", "replied"}
    /\ records \in NotArrays
    /\ pc' = [ pc EXCEPT ![p] = "replied" ]
    /\ response' = [ response EXCEPT ![p] = <<[ status |-> 400 ]>> ]
    /\ usr' = [ usr EXCEPT ![p] = userId ]
    /\ cur' = [ cur EXCEPT ![p] = SyncBody(records) ]
    /\ existing' = [ existing EXCEPT ![p] = <<>> ]
    /\ batch' = [ batch EXCEPT ![p] = <<>> ]
    /\ synced' = [ synced EXCEPT ![p] = <<>> ]
    /\ conflicts' = [ conflicts EXCEPT ![p] = <<>> ]
    /\ errors' = [ errors EXCEPT ![p] = <<>> ]
    /\ rows0' = [ rows0 EXCEPT ![p] = Len(store) ]
    /\ prior' = [ prior EXCEPT ![p] = <<>> ]
    /\ UNCHANGED <<store, env, client>>

\* the request reaches the service: empty buckets, loop not yet entered
SyncBegin(p, userId) ==
    /\ p \in env.slots
    /\ userId \in env.users
    /\ pc[p] \in {"idle", "done", "replied"}
    /\ pc' = [ pc EXCEPT ![p] = "loop" ]
    /\ usr' = [ usr EXCEPT ![p] = userId ]
    /\ cur' = [ cur EXCEPT ![p] = SyncBody("array") ]
    /\ existing' = [ existing EXCEPT ![p] = <<>> ]
    /\ batch' = [ batch EXCEPT ![p] = <<>> ]
    /\ synced' = [ synced EXCEPT ![p] = <<>> ]
    /\ conflicts' = [ conflicts EXCEPT ![p] = <<>> ]
    /\ errors' = [ errors EXCEPT ![p] = <<>> ]
    /\ response' = [ response EXCEPT ![p] = <<>> ]
    /\ rows0' = [ rows0 EXCEPT ![p] = Len(store) ]
    /\ prior' = [ prior EXCEPT ![p] = <<>> ]
    /\ UNCHANGED <<store, env, client>>

\* next record of the batch: validateSyncMetadata, up to the lookup's await
SyncValidate(p, record) ==
    /\ pc[p] = "loop"
    /\ Len(batch[p]) < MaxBatch
    /\ record \in env.pending
    /\ prior[p] # <<>> =>
          /\ Len(batch[p]) < Len(prior[p][1].batch)
          /\ record = prior[p][1].batch[Len(batch[p]) + 1]
    /\ batch' = [ batch EXCEPT ![p] = Append(@, record) ]
    /\ LET validation == validateSyncMetadata(record)
       IN  IF ~validation.isValid
           THEN /\ PushError(p, record, validation.errors)
                /\ UNCHANGED pc
           ELSE /\ pc' = [ pc EXCEPT ![p] = "lookup" ]
                /\ UNCHANGED errors
    /\ cur' = [ cur EXCEPT ![p] = record ]
    /\ existing' = [ existing EXCEPT ![p] = <<>> ]
    /\ UNCHANGED <<store, usr, synced, conflicts, response, rows0, env, prior, client>>

\* the lookup query returns; conflict detection and resolution run up to
\* the next await (the update or the insert) or to the end of the iteration
SyncLookup(p) ==
    /\ pc[p] = "lookup"
    /\ LET record == cur[p]
           rows == SelectByDeviceAndTimestamp(store, record.deviceId,
                                              record.clientTimestamp)
       IN  IF rows = {}
           THEN /\ pc' = [ pc EXCEPT ![p] = "insert" ]
                /\ UNCHANGED <<existing, synced, conflicts>>
           ELSE \E existingRecord \in rows :
                  /\ existing' = [ existing EXCEPT ![p] = <<existingRecord>> ]
                  /\ IF hasConflict(record, existingRecord)
                     THEN LET resolution ==
                                resolveConflict(record, existingRecord,
                                    OrStr(record.conflictResolutionStrategy,
                                          "server_wins"))
                          IN  IF resolution.winner = "manual"
                              THEN /\ conflicts' =
                                        [ conflicts EXCEPT ![p] = Append(@,
                                            [ record |-> record,
                                              existingRecord |-> existingRecord,
                                              resolution |-> resolution ]) ]
                                   /\ pc' = [ pc EXCEPT ![p] = "loop" ]
                                   /\ UNCHANGED synced
                              ELSE IF resolution.winner = "client"
                              THEN /\ pc' = [ pc EXCEPT ![p] = "update" ]
                                   /\ UNCHANGED <<synced, conflicts>>
                              ELSE /\ PushSynced(p, existingRecord.id,
                                                 "updated", resolution.winner)
                                   /\ pc' = [ pc EXCEPT ![p] = "loop" ]
                                   /\ UNCHANGED conflicts
                     ELSE /\ PushSynced(p, existingRecord.id, "no_change",
                                        Undef)
                          /\ pc' = [ pc EXCEPT ![p] = "loop" ]
                          /\ UNCHANGED conflicts
    /\ UNCHANGED <<store, usr, cur, batch, errors, response, rows0, env, prior, client>>

ConnectionLost == "Connection terminated unexpectedly"

\* the iteration without its try/catch: the rejection leaves the loop and
\* the request fails
SyncQueryFailsUncaught(p) ==
    /\ pc[p] \in {"lookup", "insert", "update"}
    /\ pc' = [ pc EXCEPT ![p] = "failed" ]
    /\ UNCHANGED <<store, usr, cur, existing, batch, synced, conflicts,
                   errors, response, rows0, env, prior, client>>

\* a database call of the iteration rejects (connection lost, timeout):
\* the catch block pushes the error and the loop goes on
SyncQueryFails(p) ==
    /\ pc[p] \in {"lookup", "insert", "update"}
    /\ PushError(p, cur[p], <<ConnectionLost>>)
    /\ pc' = [ pc EXCEPT ![p] = "loop" ]
    /\ UNCHANGED <<store, usr, cur, existing, batch, synced, conflicts,
                   response, rows0, env, prior, client>>

\* attendanceRepository.update(existingRecord.id, {...record, sync_version:
\* existingRecord.sync_version + 1}) returns or rejects
SyncUpdate(p) ==
    /\ pc[p] = "update"
    /\ LET record == cur[p]
           existingRecord == existing[p][1]
           updates == [ record EXCEPT
                          !.sync_version = existingRecord.sync_version + 1 ]
           table == UpdateById(store, existingRecord.id, updates)
       IN  /\ existingRecord.sync_version < MaxVersion
           /\ IF AttendanceConstraints(table[existingRecord.id])
              THEN /\ store' = table
                   /\ PushSynced(p, existingRecord.id, "updated", "client")
                   /\ UNCHANGED errors
              ELSE /\ PushError(p, record,
                        <<ConstraintViolated>>)
                   /\ UNCHANGED <<store, synced>>
    /\ pc' = [ pc EXCEPT ![p] = "loop" ]
    /\ UNCHANGED <<usr, cur, existing, batch, conflicts, response, rows0,
                   env, prior, client>>

\* attendanceRepository.create({userId, facilityId: record.facilityId, ...})
\* returns or rejects
SyncInsert(p) ==
    /\ pc[p] = "insert"
    /\ LET record == cur[p]
       IN  \E now \in ServerTimes :
             LET row == create(Len(store) + 1,
                          [ userId |-> usr[p],
                            facilityId |-> record.facilityId,
                            clockIn |-> record.clockIn,
                            clockOut |-> record.clockOut,
                            clockInLatitude |-> record.clockInLatitude,
                            clockInLongitude |-> record.clockInLongitude,
                            deviceId |-> record.deviceId,
                            clientTimestamp |-> record.clientTimestamp,
                            syncVersion |-> record.syncVersion,
                            conflictResolutionStrategy |->
                                record.conflictResolutionStrategy ],
                          now)
             IN  IF AttendanceConstraints(row)
                 THEN /\ Len(store) < MaxRows
                      /\ store' = Append(store, row)
                      /\ PushSynced(p, row.id, "created", Undef)
                      /\ UNCHANGED errors
                 ELSE /\ PushError(p, record,
                           <<ConstraintViolated>>)
                      /\ UNCHANGED <<store, synced>>
    /\ pc' = [ pc EXCEPT ![p] = "loop" ]
    /\ UNCHANGED <<usr, cur, existing, batch, conflicts, response, rows0,
                   env, prior, client>>

\* the loop ends: createSyncResponse(synced, conflicts, errors)
SyncReturn(p) ==
    /\ pc[p] = "loop"
    /\ prior[p] # <<>> => Len(batch[p]) = Len(prior[p][1].batch)
    /\ response' = [ response EXCEPT ![p] =
                       <<createSyncResponse(synced[p], conflicts[p],
                                            errors[p])>> ]
    /\ pc' = [ pc EXCEPT ![p] = "done" ]
    /\ UNCHANGED <<store, usr, cur, existing, batch, synced, conflicts,
                   errors, rows0, env, prior, client>>

\* the client, not having seen the response, sends the batch of its last
\* sync request again: the service is entered with the same records
SyncRetry(p) ==
    /\ p \in env.slots
    /\ pc[p] = "done"
    /\ batch[p] # <<>>
    /\ prior' = [ prior EXCEPT ![p] =
                    <<[ batch |-> batch[p], table |-> store ]>> ]
    /\ pc' = [ pc EXCEPT ![p] = "loop" ]
    /\ cur' = [ cur EXCEPT ![p] = SyncBody("array") ]
    /\ existing' = [ existing EXCEPT ![p] = <<>> ]
    /\ batch' = [ batch EXCEPT ![p] = <<>> ]
    /\ synced' = [ synced EXCEPT ![p] = <<>> ]
    /\ conflicts' = [ conflicts EXCEPT ![p] = <<>> ]
    /\ errors' = [ errors EXCEPT ![p] = <<>> ]
    /\ response' = [ response EXCEPT ![p] = <<>> ]
    /\ rows0' = [ rows0 EXCEPT ![p] = Len(store) ]
    /\ UNCHANGED <<store, usr, env, client>>

----------------------------------------------------------------------------
(* attendance.service.js: clockIn *)

\* findActiveAttendance: status = 'clocked_in' AND clock_out IS NULL
ActiveAttendance(table, userId) ==
    { table[i] : i \in { j \in 1..Len(table) :
                           /\ table[j].user_id = userId
                           /\ table[j].status = "clocked_in"
                           /\ table[j].clock_out = Null } }

Respond(p, status) ==
    /\ response' = [ response EXCEPT ![p] = <<[ status |-> status ]>> ]
    /\ pc' = [ pc EXCEPT ![p] = "replied" ]

\* the request passed validateClockIn and reaches the service
ClockInBegin(p, userId, clockInData) ==
    /\ p \in env.slots
    /\ userId \in env.users
    /\ pc[p] \in {"idle", "done", "replied"}
    /\ clockInData \in env.clockIns
    /\ pc' = [ pc EXCEPT ![p] = "ci_find" ]
    /\ usr' = [ usr EXCEPT ![p] = userId ]
    /\ cur' = [ cur EXCEPT ![p] = clockInData ]
    /\ existing' = [ existing EXCEPT ![p] = <<>> ]
    /\ batch' = [ batch EXCEPT ![p] = <<>> ]
    /\ synced' = [ synced EXCEPT ![p] = <<>> ]
    /\ conflicts' = [ conflicts EXCEPT ![p] = <<>> ]
    /\ errors' = [ errors EXCEPT ![p] = <<>> ]
    /\ response' = [ response EXCEPT ![p] = <<>> ]
    /\ rows0' = [ rows0 EXCEPT ![p] = Len(store) ]
    /\ prior' = [ prior EXCEPT ![p] = <<>> ]
    /\ UNCHANGED <<store, env, client>>

\* findActiveAttendance returns, then the facility query (the facilities
\* table does not change, so the two reads are taken as one step)
ClockInFind(p) ==
    /\ pc[p] = "ci_find"
    /\ IF ActiveAttendance(store, usr[p]) # {}
       THEN Respond(p, 400)
       ELSE IF cur[p].facilityId \notin ActiveFacilities
       THEN Respond(p, 404)
       ELSE /\ pc' = [ pc EXCEPT ![p] = "ci_create" ]
            /\ UNCHANGED response
    /\ UNCHANGED <<store, usr, cur, existing, batch, synced, conflicts,
                   errors, rows0, env, prior, client>>

\* attendanceRepository.create returns; the activity log and findById
\* that follow do not touch the attendance table
ClockInCreate(p) ==
    /\ pc[p] = "ci_create"
    /\ Len(store) < MaxRows
    /\ \E now \in ServerTimes :
         LET clockInData == cur[p]
             row == create(Len(store) + 1,
                      [ userId |-> usr[p],
                        facilityId |-> clockInData.facilityId,
                        clockIn |-> IF HasTime(clockInData.clockIn)
                                    THEN clockInData.clockIn ELSE now,
                        clockInLatitude |-> Null,
                        clockInLongitude |-> Null,
                        deviceId |-> clockInData.deviceId,
                        clientTimestamp |-> clockInData.clientTimestamp,
                        syncVersion |-> Null,
                        conflictResolutionStrategy |-> Undef ],
                      now)
         IN  store' = Append(store, row)
    /\ Respond(p, 201)
    /\ UNCHANGED <<usr, cur, existing, batch, synced, conflicts, errors, rows0, env, prior, client>>

----------------------------------------------------------------------------
(* attendance.service.js: clockOut *)

\* the request passed validateClockOut and reaches the service
ClockOutBegin(p, userId, clockOutData) ==
    /\ p \in env.slots
    /\ userId \in env.users
    /\ pc[p] \in {"idle", "done", "replied"}
    /\ clockOutData \in env.clockOuts
    /\ pc' = [ pc EXCEPT ![p] = "co_find" ]
    /\ usr' = [ usr EXCEPT ![p] = userId ]
    /\ cur' = [ cur EXCEPT ![p] = clockOutData ]
    /\ existing' = [ existing EXCEPT ![p] = <<>> ]
    /\ batch' = [ batch EXCEPT ![p] = <<>> ]
    /\ synced' = [ synced EXCEPT ![p] = <<>> ]
    /\ conflicts' = [ conflicts EXCEPT ![p] = <<>> ]
    /\ errors' = [ errors EXCEPT ![p] = <<>> ]
    /\ response' = [ response EXCEPT ![p] = <<>> ]
    /\ rows0' = [ rows0 EXCEPT ![p] = Len(store) ]
    /\ prior' = [ prior EXCEPT ![p] = <<>> ]
    /\ UNCHANGED <<store, env, client>>

\* findById(attendanceId) returns, then the three checks
ClockOutFind(p) ==
    /\ pc[p] = "co_find"
    /\ LET id == cur[p].attendanceId
       IN  IF id \notin 1..Len(store)
           THEN Respond(p, 404) /\ UNCHANGED existing
           ELSE IF store[id].user_id # usr[p]
           THEN Respond(p, 403) /\ UNCHANGED existing
           ELSE IF HasTime(store[id].clock_out)
           THEN Respond(p, 400) /\ UNCHANGED existing
           ELSE /\ existing' = [ existing EXCEPT ![p] = <<store[id]>> ]
                /\ pc' = [ pc EXCEPT ![p] = "co_update" ]
                /\ UNCHANGED response
    /\ UNCHANGED <<store, usr, cur, batch, synced, conflicts, errors, rows0, env, prior, client>>

\* attendanceRepository.update(attendance.id, {clock_out, ..., status:
\* 'clocked_out', sync_version: attendance.syncVersion + 1}) returns or rejects
ClockOutUpdate(p) ==
    /\ pc[p] = "co_update"
    /\ \E now \in ServerTimes :
         LET attendance == existing[p][1]
             updates == [ Blank EXCEPT
                            !.clock_out = IF HasTime(cur[p].clockOut)
                                          THEN cur[p].clockOut ELSE now,
                            !.status = "clocked_out",
                            !.sync_version = attendance.sync_version + 1 ]
             table == UpdateById(store, attendance.id, updates)
         IN  /\ attendance.sync_version < MaxVersion
             /\ IF AttendanceConstraints(table[attendance.id])
                THEN store' = table /\ Respond(p, 200)
                ELSE UNCHANGED store /\ Respond(p, 500)
    /\ UNCHANGED <<usr, cur, existing, batch, synced, conflicts, errors, rows0, env, prior, client>>

----------------------------------------------------------------------------
(* attendance.repository.js: bulkInsert *)

\* a record as bulkInsert reads it: the wire record with its owner
BulkRecord(userId, r) ==
    [ userId |-> userId,
      facilityId |-> r.facilityId,
      clockIn |-> r.clockIn,
      clockOut |-> r.clockOut,
      clockInLatitude |-> r.clockInLatitude,
      clockInLongitude |-> r.clockInLongitude,
      status |-> r.status,
      deviceId |-> r.deviceId,
      clientTimestamp |-> r.clientTimestamp,
      syncVersion |-> r.syncVersion,
      conflictResolutionStrategy |-> r.conflictResolutionStrategy ]

\* the row one INSERT of bulkInsert adds: unlike create(), it names
\* clock_out and derives status from it, and clock_in has no default
bulkInsertRow(id, record) ==
    [ id |-> id,
      user_id |-> record.userId,
      facility_id |-> record.facilityId,
      clock_in |-> record.clockIn,
      clock_in_latitude |-> OrNum(record.clockInLatitude, Null),
      clock_in_longitude |-> OrNum(record.clockInLongitude, Null),
      clock_out |-> OrNum(record.clockOut, Null),
      status |-> OrStr(record.status,
                       IF Truthy(record.clockOut)
                       THEN "clocked_out" ELSE "clocked_in"),
      synced |-> TRUE,
      client_timestamp |-> record.clientTimestamp,
      device_id |-> record.deviceId,
      sync_version |-> OrNum(record.syncVersion, 1),
      conflict_resolution_strategy |->
          OrStr(record.conflictResolutionStrategy, "server_wins") ]

\* db.getClient() and BEGIN
BulkBegin(p, userId) ==
    /\ p \in env.slots
    /\ userId \in env.users
    /\ pc[p] \in {"idle", "bulk_done"}
    /\ pc' = [ pc EXCEPT ![p] = "bulk" ]
    /\ usr' = [ usr EXCEPT ![p] = userId ]
    /\ client' = [ client EXCEPT ![p] = NoClient ]
    /\ batch' = [ batch EXCEPT ![p] = <<>> ]
    /\ errors' = [ errors EXCEPT ![p] = <<>> ]
    /\ response' = [ response EXCEPT ![p] = <<>> ]
    /\ rows0' = [ rows0 EXCEPT ![p] = Len(store) ]
    /\ prior' = [ prior EXCEPT ![p] = <<[ batch |-> <<>>, table |-> store ]>> ]
    /\ UNCHANGED <<store, cur, existing, synced, conflicts, env>>

\* the INSERT of the next record: its row joins the transaction, or the
\* statement throws and control passes to the catch block
BulkInsertQuery(p, r) ==
    /\ pc[p] = "bulk"
    /\ Len(batch[p]) < MaxBatch
    /\ LET record == BulkRecord(usr[p], r)
           row == bulkInsertRow(Len(store) + Len(client[p].tx) + 1, record)
       IN  /\ batch' = [ batch EXCEPT ![p] = Append(@, record) ]
           /\ IF AttendanceConstraints(row)
              THEN /\ Len(store) + Len(client[p].tx) < MaxRows
                   /\ client' = [ client EXCEPT ![p].tx = Append(@, row) ]
                   /\ UNCHANGED <<pc, errors>>
              ELSE /\ pc' = [ pc EXCEPT ![p] = "bulk_catch" ]
                   /\ errors' = [ errors EXCEPT ![p] = <<ConstraintViolated>> ]
                   /\ UNCHANGED client
    /\ UNCHANGED <<store, usr, cur, existing, synced, conflicts, response,
                   rows0, env, prior>>

\* BEGIN, an INSERT or COMMIT rejects because the connection is lost
BulkQueryFails(p) ==
    /\ pc[p] = "bulk"
    /\ pc' = [ pc EXCEPT ![p] = "bulk_catch" ]
    /\ errors' = [ errors EXCEPT ![p] = <<ConnectionLost>> ]
    /\ UNCHANGED <<store, usr, cur, existing, batch, synced, conflicts,
                   response, rows0, env, prior, client>>

\* the loop is over: COMMIT, return inserted, and the finally block
BulkCommit(p) ==
    /\ pc[p] = "bulk"
    /\ store' = Commit(store, client[p].tx)
    /\ response' = [ response EXCEPT ![p] =
                       <<[ status |-> "returned", rows |-> client[p].tx,
                           error |-> Undef ]>> ]
    /\ client' = [ client EXCEPT ![p] = release([ @ EXCEPT !.tx = <<>> ]) ]
    /\ pc' = [ pc EXCEPT ![p] = "bulk_done" ]
    /\ UNCHANGED <<usr, cur, existing, batch, synced, conflicts, errors,
                   rows0, env, prior>>

\* the catch block: ROLLBACK, throw error, and the finally block
BulkRollback(p) ==
    /\ pc[p] = "bulk_catch"
    /\ store' = Rollback(store, client[p].tx)
    /\ response' = [ response EXCEPT ![p] =
                       <<[ status |-> "thrown", rows |-> <<>>,
                           error |-> errors[p][1] ]>> ]
    /\ client' = [ client EXCEPT ![p] = release([ @ EXCEPT !.tx = <<>> ]) ]
    /\ pc' = [ pc EXCEPT ![p] = "bulk_done" ]
    /\ UNCHANGED <<usr, cur, existing, batch, synced, conflicts, errors,
                   rows0, env, prior>>

----------------------------------------------------------------------------
(* Environments and specifications *)

\* Records a device may hold in its pending_sync buffer.
\* RDoc is in the documented request format (camelCase keys only); the
\* others repeat their values under the snake_case keys unless said otherwise.
RDoc == Camel("f1", "d1", 10, 100, Null, 1, Undef)
RDocNoDevice == Camel("f1", Undef, 20, 100, Null, 1, Undef)
RBoth == WithSnake(RDoc)
RBoth2 == WithSnake(Camel("f1", "d1", 20, 100, Null, Null, Undef))
RClient == WithSnake(Camel("f1", "d1", 10, 220, Null, 1, "client_wins"))
RManual == WithSnake(Camel("f1", "d1", 10, 100, Null, 2, "manual"))
RServer == WithSnake(Camel("f1", "d1", 10, 100, Null, 2, "server_wins"))
\* an unknown strategy under the camelCase key only
RBogus ==
    [ WithSnake(Camel("f1", "d1", 10, 100, Null, 2, Undef))
        EXCEPT !.conflictResolutionStrategy = "bogus" ]

Pending ==
    { RDoc, RDocNoDevice, RBoth, RBoth2, RClient, RManual, RServer, RBogus }

PendingFaults == { RBoth, RClient, RManual }

PendingConcurrent == { RBoth, RClient }

\* a client_wins record sent without syncVersion
RClientNew == WithSnake(Camel("f1", "d1", 20, 100, Null, Null, "client_wins"))

\* a record whose clock-in latitude is outside [-90, 90]
RBadLatitude ==
    [ RBoth EXCEPT !.clockInLatitude = 95, !.clockInLongitude = 30 ]

\* a record whose syncVersion is a number, but not a positive one
RNegative == WithSnake(Camel("f1", "d1", 30, 100, Null, -5, Undef))

\* a finished attendance: the record carries its clockOut
RFinished == WithSnake(Camel("f1", "d1", 40, 100, 400, 1, Undef))

PendingRetry ==
    { RBoth, RClient, RClientNew, RManual, RBadLatitude, RNegative,
      RFinished }

\* request bodies of POST /clock-in and POST /clock-out
ClockIns ==
    { [ Blank EXCEPT !.facilityId = "f1", !.deviceId = "d1",
                     !.clientTimestamp = 10, !.clockIn = 100 ],
      [ Blank EXCEPT !.facilityId = "f2" ] }

ClockOuts ==
    { [ Blank EXCEPT !.attendanceId = 1, !.clockOut = 400 ],
      [ Blank EXCEPT !.attendanceId = 2 ] }

InitWith(environment) ==
    /\ store = <<>>
    /\ pc = [ p \in Slots |-> "idle" ]
    /\ usr = [ p \in Slots |-> "u1" ]
    /\ cur = [ p \in Slots |-> Blank ]
    /\ existing = [ p \in Slots |-> <<>> ]
    /\ batch = [ p \in Slots |-> <<>> ]
    /\ synced = [ p \in Slots |-> <<>> ]
    /\ conflicts = [ p \in Slots |-> <<>> ]
    /\ errors = [ p \in Slots |-> <<>> ]
    /\ response = [ p \in Slots |-> <<>> ]
    /\ rows0 = [ p \in Slots |-> 0 ]
    /\ prior = [ p \in Slots |-> <<>> ]
    /\ client = [ p \in Slots |-> NoClient ]
    /\ env = environment

SyncStep(p) ==
    \/ \E u \in Users, r \in NotArrays : SyncBadRequest(p, u, r)
    \/ \E u \in Users : SyncBegin(p, u)
    \/ \E r \in env.pending : SyncValidate(p, r)
    \/ SyncLookup(p)
    \/ SyncUpdate(p)
    \/ SyncInsert(p)
    \/ SyncReturn(p)

ClockStep(p) ==
    \/ \E u \in Users, d \in env.clockIns : ClockInBegin(p, u, d)
    \/ ClockInFind(p)
    \/ ClockInCreate(p)
    \/ \E u \in Users, d \in env.clockOuts : ClockOutBegin(p, u, d)
    \/ ClockOutFind(p)
    \/ ClockOutUpdate(p)

\* one request at a time, one user, the database always answers
Init ==
    InitWith([ pending |-> Pending, clockIns |-> ClockIns,
               clockOuts |-> ClockOuts, slots |-> {"a"}, users |-> {"u1"} ])

Next == \E p \in Slots : SyncStep(p) \/ ClockStep(p)

Spec == Init /\ [][Next]_vars

\* one request at a time, database calls of a sync may fail
InitFaults ==
    InitWith([ pending |-> PendingFaults, clockIns |-> ClockIns,
               clockOuts |-> ClockOuts, slots |-> {"a"}, users |-> {"u1"} ])

NextFaults ==
    \E p \in Slots : SyncStep(p) \/ ClockStep(p) \/ SyncQueryFails(p)

SpecFaults == InitFaults /\ [][NextFaults]_vars

\* two sync requests in flight at once
InitConcurrent ==
    InitWith([ pending |-> PendingConcurrent, clockIns |-> {},
               clockOuts |-> {}, slots |-> Slots, users |-> {"u1"} ])

NextConcurrent == \E p \in Slots : SyncStep(p)

SpecConcurrent == InitConcurrent /\ [][NextConcurrent]_vars

\* a client_wins record naming another facility than the stored row, and a
\* record naming a facility that does not exist
RClientMoved == WithSnake(Camel("f2", "d1", 10, 220, Null, 1, "client_wins"))
RNoFacility == WithSnake(Camel("f9", "d1", 20, 100, Null, 1, Undef))

PendingTwoUsers == { RClient, RClientMoved, RNoFacility }

\* one request at a time, by either of two users
InitTwoUsers ==
    InitWith([ pending |-> PendingTwoUsers, clockIns |-> ClockIns,
               clockOuts |-> ClockOuts, slots |-> {"a"}, users |-> Users ])

NextTwoUsers == \E p \in Slots : SyncStep(p) \/ ClockStep(p)

SpecTwoUsers == InitTwoUsers /\ [][NextTwoUsers]_vars

\* one request at a time; a finished sync request may be sent again
InitRetry ==
    InitWith([ pending |-> PendingRetry, clockIns |-> ClockIns,
               clockOuts |-> ClockOuts, slots |-> {"a"}, users |-> {"u1"} ])

NextRetry == \E p \in Slots : SyncStep(p) \/ ClockStep(p) \/ SyncRetry(p)

SpecRetry == InitRetry /\ [][NextRetry]_vars

\* clock-in and clock-out requests of one user, two at a time
InitClocks ==
    InitWith([ pending |-> {}, clockIns |-> ClockIns,
               clockOuts |-> ClockOuts, slots |-> Slots, users |-> {"u1"} ])

NextClocks == \E p \in Slots : ClockStep(p)

SpecClocks == InitClocks /\ [][NextClocks]_vars

\* a record without clockIn
RNoClockIn == WithSnake(Camel("f1", "d1", 50, Null, Null, 1, Undef))

PendingBulk == { RBoth, RBoth2, RFinished, RBadLatitude, RNoClockIn }

\* bulkInsert called with arrays of records, one call at a time
InitBulk ==
    InitWith([ pending |-> PendingBulk, clockIns |-> {}, clockOuts |-> {},
               slots |-> {"a"}, users |-> {"u1"} ])

NextBulk ==
    \E p \in Slots :
        \/ \E u \in Users : BulkBegin(p, u)
        \/ \E r \in env.pending : BulkInsertQuery(p, r)
        \/ BulkQueryFails(p)
        \/ BulkCommit(p)
        \/ BulkRollback(p)

SpecBulk == InitBulk /\ [][NextBulk]_vars

----------------------------------------------------------------------------
(* The resolver on its own: hasConflict applied to an incoming record and a *)
(* stored row                                                               *)

\* clock-in and clock-out times around those of the stored rows
ClockInTimes == {39, 40, 100, 160, 161}
ClockOutTimes == {Null, 339, 340, 400, 460, 461}

\* incoming records, keyed as the resolver reads them
IncomingRecords ==
    { WithSnake(Camel("f1", "d1", 10, cin, cout, ver, Undef)) :
        cin \in ClockInTimes, cout \in ClockOutTimes, ver \in {1, 2} }

\* rows as clockIn leaves them, as a sync insert with syncVersion 2 leaves
\* them, and as a later clockOut leaves them
StoredRows ==
    LET row == create(1, [ userId |-> "u1", facilityId |-> "f1",
                           clockIn |-> 100, deviceId |-> "d1",
                           clockInLatitude |-> Null,
                           clockInLongitude |-> Null,
                           clientTimestamp |-> 10, syncVersion |-> Null,
                           conflictResolutionStrategy |-> Undef ], 300)
    IN  { row, [ row EXCEPT !.sync_version = 2 ],
          update(row, [ Blank EXCEPT !.clock_out = 400,
                                     !.status = "clocked_out",
                                     !.sync_version = 2 ]) }

\* records that differ in the metadata validateSyncMetadata reads
MetadataRecords ==
    { [ Blank EXCEPT !.device_id = dev, !.client_timestamp = ts,
                     !.sync_version = ver, !.clock_in = 100,
                     !.conflict_resolution_strategy = strat ] :
        dev \in {Undef, "", "d1"}, ts \in {Null, 10},
        ver \in {Null, 0, 1, NotANumber},
        strat \in ValidStrategies \cup {Undef, "bogus"} }

\* strategies handed to resolveConflict
Strategies == ValidStrategies \cup {"bogus"}

\* validateSyncMetadata(record) is evaluated
ValidateMetadata(p) ==
    /\ pc[p] = "detect"
    /\ response' = [ response EXCEPT ![p] = <<validateSyncMetadata(cur[p])>> ]
    /\ pc' = [ pc EXCEPT ![p] = "validated" ]
    /\ UNCHANGED <<store, usr, cur, existing, batch, synced, conflicts,
                   errors, rows0, env, prior, client>>

\* resolveConflict(record, existingRecord, strategy) is evaluated
ResolveConflict(p, strategy) ==
    /\ pc[p] = "detect"
    /\ response' = [ response EXCEPT ![p] =
                       <<[ strategy |-> strategy,
                           resolution |-> resolveConflict(cur[p],
                                              existing[p][1], strategy) ]>> ]
    /\ pc' = [ pc EXCEPT ![p] = "resolved" ]
    /\ UNCHANGED <<store, usr, cur, existing, batch, synced, conflicts,
                   errors, rows0, env, prior, client>>

\* hasConflict(record, existingRecord) is evaluated
DetectConflict(p) ==
    /\ pc[p] = "detect"
    /\ response' = [ response EXCEPT ![p] =
                       <<[ conflict |-> hasConflict(cur[p], existing[p][1]) ]>> ]
    /\ pc' = [ pc EXCEPT ![p] = "detected" ]
    /\ UNCHANGED <<store, usr, cur, existing, batch, synced, conflicts,
                   errors, rows0, env, prior, client>>

InitResolver ==
    /\ store = <<>>
    /\ pc = [ p \in Slots |-> IF p = "a" THEN "detect" ELSE "idle" ]
    /\ usr = [ p \in Slots |-> "u1" ]
    /\ \E record \in IncomingRecords \cup MetadataRecords :
         cur = [ p \in Slots |-> IF p = "a" THEN record ELSE Blank ]
    /\ \E existingRecord \in StoredRows :
         existing = [ p \in Slots |-> IF p = "a" THEN <<existingRecord>>
                                                ELSE <<>> ]
    /\ batch = [ p \in Slots |-> <<>> ]
    /\ synced = [ p \in Slots |-> <<>> ]
    /\ conflicts = [ p \in Slots |-> <<>> ]
    /\ errors = [ p \in Slots |-> <<>> ]
    /\ response = [ p \in Slots |-> <<>> ]
    /\ rows0 = [ p \in Slots |-> 0 ]
    /\ prior = [ p \in Slots |-> <<>> ]
    /\ client = [ p \in Slots |-> NoClient ]
    /\ env = [ pending |-> {}, clockIns |-> {}, clockOuts |-> {},
               slots |-> {"a"}, users |-> {"u1"} ]

NextResolver ==
    \E p \in Slots :
        \/ DetectConflict(p)
        \/ ValidateMetadata(p)
        \/ \E strategy \in Strategies : ResolveConflict(p, strategy)

SpecResolver == InitResolver /\ [][NextResolver]_vars

----------------------------------------------------------------------------
(* Vocabulary of the properties *)

Last(seq) == seq[Len(seq)]

\* ids of the rows stored under a dedup key
KeyRows(deviceId, clientTimestamp) ==
    { i \in 1..Len(store) : /\ store[i].device_id = deviceId
                            /\ store[i].client_timestamp = clientTimestamp }

\* a record of the documented request format that the schema accepts
WellFormed(r) ==
    /\ r.facilityId \in Facilities
    /\ HasTime(r.clockIn)
    /\ r.syncVersion # NotANumber
    /\ r.conflictResolutionStrategy \in ValidStrategies \cup {Undef}

HasKey(r) == Present(r.deviceId) /\ HasTime(r.clientTimestamp)

\* no row had the record's dedup key when the request of slot p began
NewAtBegin(p, r) ==
    \A i \in KeyRows(r.deviceId, r.clientTimestamp) : i > rows0[p]

\* the field of the record that an error message names, if any
NamedField(message) ==
    CASE message = "Missing device_id" -> "device_id"
      [] message = "Missing client_timestamp" -> "client_timestamp"
      [] message = "Invalid sync_version type" -> "sync_version"
      [] message = "Invalid conflict_resolution_strategy"
            -> "conflict_resolution_strategy"
      [] OTHER -> Undef

\* the fields hasConflict compares are equal
SameFields(c, s) ==
    /\ c.sync_version = s.sync_version
    /\ c.clock_in = s.clock_in
    /\ c.clock_out = s.clock_out

\* the rows of the table that a step changes
ChangedRows == { i \in 1..Len(store) : store'[i] # store[i] }

\* slot p is inside syncOfflineRecords
InSync(p) == pc[p] \in {"loop", "lookup", "insert", "update"}

\* slot p has just finished the iteration of a record for which the lookup
\* found the row existing[p][1], in conflict with it
ConflictHandled(p) ==
    /\ pc[p] \in {"loop", "done"}
    /\ existing[p] # <<>>
    /\ hasConflict(cur[p], existing[p][1])

\* slot p has just finished an iteration that resolved a conflict for the
\* client and updated the row
ClientResolved(p) ==
    /\ ConflictHandled(p)
    /\ synced[p] # <<>>
    /\ Last(synced[p]) = [ id |-> existing[p][1].id, action |-> "updated",
                           resolution |-> "client" ]

\* slot p leaves the lookup having found a row in conflict with its record
ConflictFound(p) ==
    /\ pc[p] = "lookup"
    /\ pc'[p] # "lookup"
    /\ existing'[p] # <<>>
    /\ hasConflict(cur[p], existing'[p][1])

----------------------------------------------------------------------------
(* C1: a well-formed record whose dedup key is not stored, submitted twice  *)
(* in one batch, is answered "created" and then "no_change", and one row    *)
(* holds its key afterwards.                                                *)
C1_ResubmissionIsNoChange ==
    \A p \in Slots :
        ( /\ pc[p] = "done"
          /\ Len(batch[p]) = 2
          /\ batch[p][1] = batch[p][2]
          /\ WellFormed(batch[p][1])
          /\ HasKey(batch[p][1])
          /\ NewAtBegin(p, batch[p][1]) )
        => /\ Len(synced[p]) = 2
           /\ synced[p][1].action = "created"
           /\ synced[p][2].action = "no_change"
           /\ synced[p][2].id = synced[p][1].id
           /\ Cardinality(KeyRows(batch[p][1].deviceId,
                                  batch[p][1].clientTimestamp)) = 1

(* C2: no two stored rows share a (device_id, client_timestamp) pair.       *)
C2_DedupKeyUnique ==
    \A i, j \in 1..Len(store) :
        ( /\ i # j
          /\ Present(store[i].device_id)
          /\ HasTime(store[i].client_timestamp) )
        => ~ ( /\ store[i].device_id = store[j].device_id
               /\ store[i].client_timestamp = store[j].client_timestamp )

(* C3: when two sync requests that both carry a record with the same new    *)
(* dedup key have both returned, exactly one row holds that key, however    *)
(* their lookups and inserts interleaved.                                   *)
C3_ConcurrentBatchesInsertOnce ==
    \A r \in env.pending :
        ( /\ \A p \in Slots :
                /\ pc[p] = "done"
                /\ \E i \in 1..Len(batch[p]) : batch[p][i] = r
                /\ NewAtBegin(p, r)
          /\ WellFormed(r)
          /\ HasKey(r)
          /\ validateSyncMetadata(r).isValid )
        => Cardinality(KeyRows(r.deviceId, r.clientTimestamp)) = 1

(* C4: every record taken from a batch has exactly one entry in exactly one *)
(* of the buckets synced, conflicts, errors, and the counts of the response *)
(* are the lengths of its three data arrays and add up to the batch.        *)
C4_BucketsPartitionBatch ==
    \A p \in Slots :
        LET entries == Len(synced[p]) + Len(conflicts[p]) + Len(errors[p])
        IN  /\ pc[p] \in {"lookup", "insert", "update"}
                => entries = Len(batch[p]) - 1
            /\ pc[p] = "loop" => entries = Len(batch[p])
            /\ pc[p] = "done" =>
                 LET r == response[p][1]
                 IN  /\ r.synced + r.conflicts + r.errors = Len(batch[p])
                     /\ r.synced = Len(r.data.synced)
                     /\ r.conflicts = Len(r.data.conflicts)
                     /\ r.errors = Len(r.data.errors)
                     /\ r.data.synced = synced[p]
                     /\ r.data.conflicts = conflicts[p]
                     /\ r.data.errors = errors[p]

C4_Witness ==
    \E p \in Slots :
        /\ pc[p] = "done"
        /\ Len(batch[p]) = 2
        /\ response[p][1].synced = 1
        /\ response[p][1].conflicts = 1

(* C5: a database call of an iteration that rejects does not end the batch: *)
(* the request stays in its loop, the record of that iteration is appended  *)
(* to errors, nothing else of the response changes, and no stored row is    *)
(* undone.                                                                  *)
C5_FailureStaysInBatch ==
    [][ \A p \in Slots :
          ( pc[p] \in {"lookup", "insert", "update"} /\ pc'[p] # pc[p] )
          => /\ pc'[p] \in {"loop", "insert", "update"}
             /\ batch'[p] = batch[p]
             /\ Len(store') >= Len(store)
             /\ errors'[p] # errors[p]
                  => /\ pc'[p] = "loop"
                     /\ store' = store
                     /\ Len(errors'[p]) = Len(errors[p]) + 1
                     /\ Last(errors'[p]).record = cur[p]
                     /\ synced'[p] = synced[p]
                     /\ conflicts'[p] = conflicts[p] ]_vars

C5_Witness ==
    \E p \in Slots :
        /\ pc[p] = "done"
        /\ Len(batch[p]) = 2
        /\ Len(errors[p]) = 1
        /\ errors[p][1].record = batch[p][1]
        /\ errors[p][1].errors = <<ConnectionLost>>
        /\ Len(synced[p]) = 1
        /\ synced[p][1].action = "created"
        /\ store[synced[p][1].id].client_timestamp
             = batch[p][2].clientTimestamp

(* C6: in a batch where one record lacks deviceId and every other record is *)
(* well formed with a new dedup key of its own, that one record is the only *)
(* entry of errors and every other record is created and stored.            *)
C6_OnlyInvalidRecordRejected ==
    \A p \in Slots :
      \A k \in 1..Len(batch[p]) :
        ( /\ pc[p] = "done"
          /\ Len(batch[p]) >= 2
          /\ ~Present(batch[p][k].deviceId)
          /\ \A i \in 1..Len(batch[p]) \ {k} :
                /\ WellFormed(batch[p][i])
                /\ HasKey(batch[p][i])
                /\ NewAtBegin(p, batch[p][i])
                /\ \A j \in 1..Len(batch[p]) \ {k, i} :
                      batch[p][j].clientTimestamp
                        # batch[p][i].clientTimestamp )
        => /\ Len(errors[p]) = 1
           /\ errors[p][1].record = batch[p][k]
           /\ Len(synced[p]) = Len(batch[p]) - 1
           /\ \A i \in 1..Len(synced[p]) : synced[p][i].action = "created"
           /\ \A i \in 1..Len(batch[p]) \ {k} :
                KeyRows(batch[p][i].deviceId,
                        batch[p][i].clientTimestamp) # {}

(* C7: after a conflict resolved under client_wins the stored row has the   *)
(* incoming clockIn and the previous sync_version plus one, and the last    *)
(* entry of synced is {id, "updated", "client"}.                            *)
C7_ClientWinsStoresIncoming ==
    \A p \in Slots :
        ( /\ ConflictHandled(p)
          /\ cur[p].conflictResolutionStrategy = "client_wins" )
        => LET existingRecord == existing[p][1]
               row == store[existingRecord.id]
           IN  /\ HasTime(cur[p].clockIn) => row.clock_in = cur[p].clockIn
               /\ row.sync_version = existingRecord.sync_version + 1
               /\ synced[p] # <<>>
               /\ Last(synced[p]) = [ id |-> existingRecord.id,
                                      action |-> "updated",
                                      resolution |-> "client" ]

(* C8: a conflict whose record declares server_wins, or no strategy, ends   *)
(* its iteration in the lookup step with the table unchanged and the entry  *)
(* {id, "updated", "server"} appended to synced.                            *)
C8_ServerWinsWritesNothing ==
    [][ \A p \in Slots :
          ( /\ ConflictFound(p)
            /\ cur[p].conflictResolutionStrategy \in {"server_wins", Undef} )
          => /\ store' = store
             /\ pc'[p] = "loop"
             /\ synced'[p] = Append(synced[p],
                                [ id |-> existing'[p][1].id,
                                  action |-> "updated",
                                  resolution |-> "server" ])
             /\ conflicts'[p] = conflicts[p]
             /\ errors'[p] = errors[p] ]_vars

C8_Witness ==
    \E p \in Slots :
        /\ pc[p] = "done"
        /\ Len(batch[p]) = 2
        /\ batch[p][1].conflictResolutionStrategy = Undef
        /\ batch[p][2].conflictResolutionStrategy = "server_wins"
        /\ Len(synced[p]) = 2
        /\ \A i \in 1..2 : /\ synced[p][i].action = "updated"
                           /\ synced[p][i].resolution = "server"
        /\ ConflictHandled(p)

C10_UnknownStrategyAsServerWins ==
    [][ \A p \in Slots :
          ( /\ ConflictFound(p)
            /\ Present(cur[p].conflictResolutionStrategy)
            /\ cur[p].conflictResolutionStrategy \notin ValidStrategies )
          => LET existingRecord == existing'[p][1]
                 declared == resolveConflict(cur[p], existingRecord,
                                 cur[p].conflictResolutionStrategy)
                 asServer == resolveConflict(cur[p], existingRecord,
                                             "server_wins")
             IN  /\ declared.winner = asServer.winner
                 /\ declared.resolved = asServer.resolved
                 /\ store' = store
                 /\ pc'[p] = "loop"
                 /\ synced'[p] = Append(synced[p],
                                    [ id |-> existingRecord.id,
                                      action |-> "updated",
                                      resolution |-> asServer.winner ])
                 /\ conflicts'[p] = conflicts[p] ]_vars

C10_Witness ==
    \E p \in Slots :
        /\ ConflictHandled(p)
        /\ cur[p].conflictResolutionStrategy = "bogus"
        /\ synced[p] # <<>>
        /\ Last(synced[p]) = [ id |-> existing[p][1].id,
                               action |-> "updated",
                               resolution |-> "server" ]
        /\ store[existing[p][1].id] = existing[p][1]

(* C11: a record whose conflictResolutionStrategy is present and is none of *)
(* client_wins, server_wins, manual is rejected by validation: whenever it  *)
(* is the record of the current iteration the request is between            *)
(* iterations (never at a lookup, an insert or an update) and the last      *)
(* entry of errors is that record.                                          *)
C11_UnknownStrategyRejected ==
    \A p \in Slots :
        ( /\ Present(cur[p].conflictResolutionStrategy)
          /\ cur[p].conflictResolutionStrategy \notin ValidStrategies )
        => /\ pc[p] \in {"loop", "done"}
           /\ errors[p] # <<>>
           /\ Last(errors[p]).record = cur[p]

(* C12: with sync_version and the other time equal, hasConflict answers no  *)
(* conflict when the two clock_in (or the two clock_out, both present)      *)
(* differ by exactly 60 seconds and conflict when they differ by 61, in     *)
(* either direction.                                                        *)
C12_ToleranceIsSixtySeconds ==
    \A p \in Slots :
        pc[p] = "detected" =>
          LET c == cur[p]
              s == existing[p][1]
              conflict == response[p][1].conflict
              sameButClockIn == /\ c.sync_version = s.sync_version
                                /\ c.clock_out = s.clock_out
              sameButClockOut == /\ c.sync_version = s.sync_version
                                 /\ c.clock_in = s.clock_in
                                 /\ HasTime(c.clock_out)
                                 /\ HasTime(s.clock_out)
          IN  /\ (sameButClockIn /\ Abs(c.clock_in - s.clock_in) = 60)
                    => ~conflict
              /\ (sameButClockIn /\ Abs(c.clock_in - s.clock_in) = 61)
                    => conflict
              /\ (sameButClockOut /\ Abs(c.clock_out - s.clock_out) = 60)
                    => ~conflict
              /\ (sameButClockOut /\ Abs(c.clock_out - s.clock_out) = 61)
                    => conflict

C12_Witness ==
    \E p \in Slots :
        /\ pc[p] = "detected"
        /\ cur[p].sync_version = existing[p][1].sync_version
        /\ cur[p].clock_out = existing[p][1].clock_out
        /\ existing[p][1].clock_in - cur[p].clock_in = 61
        /\ response[p][1].conflict

(* C13: hasConflict answers conflict exactly when sync_version differs, or  *)
(* clock_in differs by more than 60 seconds, or both clock_out are present  *)
(* and differ by more than 60 seconds, or exactly one of the two records    *)
(* has a clock_out.                                                         *)
C13_ConflictIffFieldsDiffer ==
    \A p \in Slots :
        pc[p] = "detected" =>
          LET c == cur[p]
              s == existing[p][1]
          IN  response[p][1].conflict
                <=> \/ c.sync_version # s.sync_version
                    \/ Abs(c.clock_in - s.clock_in) > 60
                    \/ /\ HasTime(c.clock_out)
                       /\ HasTime(s.clock_out)
                       /\ Abs(c.clock_out - s.clock_out) > 60
                    \/ HasTime(c.clock_out) # HasTime(s.clock_out)

(* C14: when the lookup of a well-formed record finds no row under its      *)
(* dedup key, the insert that follows adds exactly one row, with the        *)
(* record's syncVersion (1 if absent), synced = TRUE, the caller's user id  *)
(* and the record's key, and appends {id, "created"} to synced.             *)
C14_NoMatchInsertsRow ==
    [][ \A p \in Slots :
          /\ ( /\ pc[p] = "lookup"
               /\ pc'[p] # "lookup"
               /\ KeyRows(cur[p].deviceId, cur[p].clientTimestamp) = {} )
             => pc'[p] = "insert" /\ store' = store
          /\ ( /\ pc[p] = "insert"
               /\ pc'[p] # "insert"
               /\ WellFormed(cur[p])
               /\ KeyRows(cur[p].deviceId, cur[p].clientTimestamp) = {} )
             => /\ Len(store') = Len(store) + 1
                /\ SubSeq(store', 1, Len(store)) = store
                /\ LET row == Last(store')
                   IN  /\ row.sync_version
                            = IF cur[p].syncVersion = Null
                              THEN 1 ELSE cur[p].syncVersion
                       /\ row.synced = TRUE
                       /\ row.user_id = usr[p]
                       /\ row.device_id = cur[p].deviceId
                       /\ row.client_timestamp = cur[p].clientTimestamp
                       /\ synced'[p] = Append(synced[p],
                                         [ id |-> row.id,
                                           action |-> "created",
                                           resolution |-> Undef ])
                /\ errors'[p] = errors[p]
                /\ conflicts'[p] = conflicts[p] ]_vars

C14_Witness ==
    \E p \in Slots :
        /\ pc[p] \in {"loop", "done"}
        /\ cur[p].syncVersion = 2
        /\ existing[p] = <<>>
        /\ synced[p] # <<>>
        /\ Last(synced[p]).action = "created"
        /\ Last(synced[p]).id = Len(store)
        /\ store[Len(store)].sync_version = 2
        /\ store[Len(store)].user_id = usr[p]
        /\ store[Len(store)].client_timestamp = cur[p].clientTimestamp

(* C15: when the lookup finds a row and hasConflict reports none (as it     *)
(* must when the compared fields are equal), the iteration ends there with  *)
(* the table unchanged and {id of the row, "no_change"} appended to synced. *)
C15_NoConflictWritesNothing ==
    [][ \A p \in Slots :
          ( /\ pc[p] = "lookup"
            /\ pc'[p] # "lookup"
            /\ existing'[p] # <<>>
            /\ \/ ~hasConflict(cur[p], existing'[p][1])
               \/ SameFields(cur[p], existing'[p][1]) )
          => /\ store' = store
             /\ pc'[p] = "loop"
             /\ synced'[p] = Append(synced[p],
                                [ id |-> existing'[p][1].id,
                                  action |-> "no_change",
                                  resolution |-> Undef ])
             /\ conflicts'[p] = conflicts[p]
             /\ errors'[p] = errors[p] ]_vars

C15_Witness ==
    \E p \in Slots :
        /\ pc[p] \in {"loop", "done"}
        /\ existing[p] # <<>>
        /\ ~hasConflict(cur[p], existing[p][1])
        /\ synced[p] # <<>>
        /\ Last(synced[p]) = [ id |-> existing[p][1].id,
                               action |-> "no_change",
                               resolution |-> Undef ]
        /\ store[existing[p][1].id] = existing[p][1]

(* C16: when a batch is sent again after its request completed, the table   *)
(* at the end of the second request is the table it started from: no new    *)
(* row, no changed field, no changed sync_version.                          *)
C16_RetryLeavesTable ==
    \A p \in Slots :
        ( /\ pc[p] = "done"
          /\ prior[p] # <<>>
          /\ batch[p] = prior[p][1].batch )
        => store = prior[p][1].table

(* C17: a sync request whose records is not an array is answered 400 in the *)
(* step in which it arrives: the service is not entered, no record is       *)
(* consumed, the buckets stay empty and the table is unchanged.             *)
C17_NotAnArrayIsRejected ==
    [][ \A p \in Slots :
          ( /\ pc[p] \in {"idle", "done", "replied"}
            /\ pc'[p] \notin {"ci_find", "co_find"}
            /\ <<pc'[p], cur'[p], response'[p]>>
                 # <<pc[p], cur[p], response[p]>>
            /\ cur'[p].records # "array" )
          => /\ store' = store
             /\ pc'[p] = "replied"
             /\ response'[p] = <<[ status |-> 400 ]>>
             /\ batch'[p] = <<>>
             /\ synced'[p] = <<>>
             /\ conflicts'[p] = <<>>
             /\ errors'[p] = <<>> ]_vars

C17_Witness ==
    \E p \in Slots :
        /\ pc[p] = "replied"
        /\ cur[p].records = "text"
        /\ response[p] = <<[ status |-> 400 ]>>
        /\ batch[p] = <<>>
        /\ Len(store) = 2

(* C18: a row that a sync request has updated under client_wins belongs to  *)
(* the user who sent the request.                                           *)
C18_SyncUpdatesOwnRowsOnly ==
    \A p \in Slots :
        ( /\ pc[p] \in {"loop", "done"}
          /\ synced[p] # <<>>
          /\ Last(synced[p]).action = "updated"
          /\ Last(synced[p]).resolution = "client" )
        => store[Last(synced[p]).id].user_id = usr[p]

(* C19: no step changes the id, user_id or facility_id of a stored row, and *)
(* no step removes a row.                                                   *)
C19_IdentityFieldsImmutable ==
    [][ /\ Len(store') >= Len(store)
        /\ \A i \in 1..Len(store) :
              /\ store'[i].id = store[i].id
              /\ store'[i].user_id = store[i].user_id
              /\ store'[i].facility_id = store[i].facility_id ]_vars

C19_Witness ==
    \E p \in Slots :
        /\ ConflictHandled(p)
        /\ cur[p].conflictResolutionStrategy = "client_wins"
        /\ synced[p] # <<>>
        /\ Last(synced[p]).resolution = "client"
        /\ store[existing[p][1].id].sync_version
             = existing[p][1].sync_version + 1
        /\ store[existing[p][1].id].facility_id = "f1"
        /\ cur[p].facilityId = "f2"

(* C20: a synced record whose facilityId is not an existing, active         *)
(* facility ends its iteration in errors, and no row inserted by the        *)
(* request names such a facility.                                           *)
C20_InactiveFacilityRejected ==
    \A p \in Slots :
        ( /\ pc[p] \in {"loop", "done"}
          /\ batch[p] # <<>>
          /\ cur[p] = Last(batch[p])
          /\ cur[p].facilityId \notin ActiveFacilities )
        => /\ errors[p] # <<>>
           /\ Last(errors[p]).record = cur[p]
           /\ \A i \in 1..Len(store) :
                i > rows0[p] => store[i].facility_id \in ActiveFacilities

(* C21: a synced record whose clockInLatitude is outside [-90, 90] ends its *)
(* iteration as the last entry of errors, with a message that names the     *)
(* field clockInLatitude, and no stored row has such a latitude.            *)
C21_BadLatitudeRejected ==
    \A p \in Slots :
        ( /\ pc[p] \in {"loop", "done"}
          /\ batch[p] # <<>>
          /\ cur[p] = Last(batch[p])
          /\ cur[p].clockInLatitude # Null
          /\ Abs(cur[p].clockInLatitude) > 90 )
        => /\ errors[p] # <<>>
           /\ Last(errors[p]).record = cur[p]
           /\ \E i \in 1..Len(Last(errors[p]).errors) :
                NamedField(Last(errors[p]).errors[i]) = "clockInLatitude"
           /\ \A i \in 1..Len(store) :
                \/ store[i].clock_in_latitude = Null
                \/ Abs(store[i].clock_in_latitude) <= 90

(* C22: resolveConflict is a decision table on the strategy: client_wins    *)
(* gives winner client and the client record, server_wins gives winner      *)
(* server and the server record, manual gives winner manual, no resolved    *)
(* record and both records returned; the two argument records are left as   *)
(* they were.                                                               *)
C22_ResolveIsDecisionTable ==
    [][ \A p \in Slots :
          ( pc[p] # "resolved" /\ pc'[p] = "resolved" )
          => LET strategy == response'[p][1].strategy
                 r == response'[p][1].resolution
                 c == cur[p]
                 s == existing[p][1]
             IN  /\ strategy = "client_wins"
                      => r.winner = "client" /\ r.resolved = <<c>>
                 /\ strategy = "server_wins"
                      => r.winner = "server" /\ r.resolved = <<s>>
                 /\ strategy = "manual"
                      => /\ r.winner = "manual"
                         /\ r.resolved = <<>>
                         /\ r.clientRecord = c
                         /\ r.serverRecord = s
                 /\ cur'[p] = c
                 /\ existing'[p] = <<s>> ]_vars

C22_Witness ==
    \E p \in Slots :
        /\ pc[p] = "resolved"
        /\ response[p][1].strategy = "client_wins"
        /\ response[p][1].resolution.winner = "client"
        /\ response[p][1].resolution.resolved = <<cur[p]>>
        /\ cur[p].clock_in # existing[p][1].clock_in

(* C23: validateSyncMetadata answers isValid exactly when its errors list   *)
(* is empty; a record with a device id, a client timestamp, a numeric sync  *)
(* version and one of the three strategies is valid; a record without a     *)
(* device id or without a client timestamp is invalid with an error.        *)
C23_ValidIffNoErrors ==
    \A p \in Slots :
        pc[p] = "validated" =>
          LET v == response[p][1]
              r == cur[p]
          IN  /\ v.isValid <=> v.errors = <<>>
              /\ ( /\ Present(r.device_id)
                   /\ HasTime(r.client_timestamp)
                   /\ r.sync_version \notin {Null, NotANumber}
                   /\ r.conflict_resolution_strategy \in ValidStrategies )
                 => v.isValid
              /\ ( ~Present(r.device_id) \/ ~HasTime(r.client_timestamp) )
                 => ~v.isValid /\ Len(v.errors) >= 1

C23_Witness ==
    \E p \in Slots :
        /\ pc[p] = "validated"
        /\ ~Present(cur[p].device_id)
        /\ HasTime(cur[p].client_timestamp)
        /\ response[p][1] = [ isValid |-> FALSE,
                              errors |-> <<"Missing device_id">> ]

(* C24: when two requests have each resolved a client_wins conflict against *)
(* the same row, the row's sync_version is at least two above the lower of  *)
(* the versions they read: neither update is lost.                          *)
C24_NoLostUpdate ==
    \A p, q \in Slots :
        ( /\ p # q
          /\ ClientResolved(p)
          /\ ClientResolved(q)
          /\ existing[p][1].id = existing[q][1].id )
        => LET vp == existing[p][1].sync_version
               vq == existing[q][1].sync_version
           IN  store[existing[p][1].id].sync_version
                 >= (IF vp < vq THEN vp ELSE vq) + 2

(* C25: the sync_version of every stored row is positive; no step lowers    *)
(* it; a step raises it, by exactly one, exactly when the step is an        *)
(* accepted mutation of that row: the update of a clockOut or of a          *)
(* client_wins resolution.                                                  *)
C25_VersionCountsMutations ==
    [][ /\ \A i \in 1..Len(store') : store'[i].sync_version >= 1
        /\ \A i \in 1..Len(store) :
             LET v == store[i].sync_version
                 w == store'[i].sync_version
                 mutated ==
                     \E p \in Slots :
                        /\ existing[p] # <<>>
                        /\ existing[p][1].id = i
                        /\ \/ /\ pc[p] = "co_update"
                              /\ response'[p] = <<[ status |-> 200 ]>>
                           \/ /\ pc[p] = "update"
                              /\ synced'[p] # synced[p]
             IN  /\ w >= v
                 /\ w \in {v, v + 1}
                 /\ (w = v + 1) <=> mutated ]_vars

(* C26: when the two records of a batch are well formed and share a dedup   *)
(* key that no row had, the first is answered "created" and the second is   *)
(* handled against the row the first created (no_change, updated, or a      *)
(* conflicts entry for that row), and one row holds the key afterwards.     *)
C26_SecondSeesFirst ==
    \A p \in Slots :
        ( /\ pc[p] = "done"
          /\ Len(batch[p]) = 2
          /\ WellFormed(batch[p][1])
          /\ WellFormed(batch[p][2])
          /\ HasKey(batch[p][1])
          /\ batch[p][2].deviceId = batch[p][1].deviceId
          /\ batch[p][2].clientTimestamp = batch[p][1].clientTimestamp
          /\ NewAtBegin(p, batch[p][1]) )
        => /\ synced[p] # <<>>
           /\ synced[p][1].action = "created"
           /\ KeyRows(batch[p][1].deviceId, batch[p][1].clientTimestamp)
                = {synced[p][1].id}
           /\ \/ /\ Len(synced[p]) = 2
                 /\ synced[p][2].id = synced[p][1].id
                 /\ synced[p][2].action \in {"no_change", "updated"}
              \/ /\ Len(synced[p]) = 1
                 /\ Len(conflicts[p]) = 1
                 /\ conflicts[p][1].record = batch[p][2]
                 /\ conflicts[p][1].existingRecord.id = synced[p][1].id

(* C27: a sync request writes only in the insert or the update step of an   *)
(* iteration, that step writes one row and ends the iteration, so a record  *)
(* costs at most one write; the insert is reached only by a valid record    *)
(* with no row under its key, the update only by a valid client_wins record *)
(* in conflict with its row, so records that end in errors by validation,   *)
(* in conflicts, as no_change or as server-resolved cost none.              *)
C27_AtMostOneWrite ==
    [][ \A p \in Slots :
          /\ ( InSync(p) /\ store' # store )
             => /\ pc[p] \in {"insert", "update"}
                /\ pc'[p] = "loop"
                /\ \/ /\ Len(store') = Len(store) + 1
                      /\ SubSeq(store', 1, Len(store)) = store
                   \/ /\ Len(store') = Len(store)
                      /\ Cardinality(ChangedRows) = 1
          /\ ( InSync(p) /\ pc'[p] = "insert" )
             => /\ validateSyncMetadata(cur'[p]).isValid
                /\ existing'[p] = <<>>
          /\ ( InSync(p) /\ pc'[p] = "update" )
             => /\ validateSyncMetadata(cur'[p]).isValid
                /\ existing'[p] # <<>>
                /\ hasConflict(cur'[p], existing'[p][1])
                /\ cur'[p].conflictResolutionStrategy = "client_wins" ]_vars

C27_Witness ==
    \E p \in Slots :
        /\ pc[p] = "done"
        /\ Len(batch[p]) = 2
        /\ Len(synced[p]) = 2
        /\ synced[p][1].action = "created"
        /\ ClientResolved(p)
        /\ Len(store) = rows0[p] + 1
        /\ store[synced[p][2].id] # existing[p][1]

(* C28: while a bulkInsert runs, none of its rows is in the table and its   *)
(* connection is not released; when it has ended, either it returned, and   *)
(* the table is the table it started from followed by one row per record of *)
(* its input, or it threw an error, and the table is the table it started   *)
(* from; either way the connection was released exactly once.              *)
C28_BulkInsertAllOrNothing ==
    \A p \in Slots :
        /\ pc[p] \in {"bulk", "bulk_catch"}
           => /\ store = prior[p][1].table
              /\ client[p].releases = 0
        /\ pc[p] = "bulk_done"
           => /\ client[p].releases = 1
              /\ client[p].released
              /\ response[p][1].status = "returned"
                 => /\ Len(response[p][1].rows) = Len(batch[p])
                    /\ store = prior[p][1].table \o response[p][1].rows
                    /\ \A i \in 1..Len(batch[p]) :
                          store[rows0[p] + i] =
                              bulkInsertRow(rows0[p] + i, batch[p][i])
              /\ response[p][1].status = "thrown"
                 => /\ store = prior[p][1].table
                    /\ response[p][1].error # Undef

\* a call whose first INSERT succeeded and whose second threw has ended
C28_Witness ==
    \E p \in Slots :
        /\ pc[p] = "bulk_done"
        /\ response[p][1].status = "thrown"
        /\ Len(batch[p]) = 2
        /\ AttendanceConstraints(bulkInsertRow(rows0[p] + 1, batch[p][1]))
        /\ client[p].releases = 1

(* C29: in every reachable state each user has at most one active          *)
(* attendance: at most one stored row of the user has status clocked_in and *)
(* no clock_out.                                                            *)
C29_OneActiveAttendance ==
    \A u \in Users : Cardinality(ActiveAttendance(store, u)) <= 1

(* C30: the row that the insert step of a sync request adds has the clockIn *)
(* and the clockOut of the incoming record, has status clocked_out when the *)
(* record carries a clockOut, and compares equal to the record in the       *)
(* fields hasConflict reads.                                                *)
C30_InsertStoresClockOut ==
    [][ \A p \in Slots :
          ( /\ pc[p] = "insert"
            /\ HasTime(cur[p].clockIn)
            /\ Len(store') = Len(store) + 1 )
          => LET row == store'[Len(store')]
             IN  /\ row.clock_in = cur[p].clockIn
                 /\ row.clock_out = cur[p].clockOut
                 /\ HasTime(cur[p].clockOut) => row.status = "clocked_out"
                 /\ cur[p].sync_version # Null => SameFields(cur[p], row) ]_vars

====
